---------------------------- MODULE Spec2Model ----------------------------
(***************************************************************************)
(* State-machine model of the HippoRAG memory core:                        *)
(*   - EmbeddingStore            (src/src/hipporag/embedding_store.py)     *)
(*   - ContextAwareMemoryManager (src/src/hipporag/context_aware_memory.py)*)
(*   - ConflictResolver          (src/src/hipporag/conflict_resolution.py) *)
(*                                                                         *)
(* Conventions.                                                            *)
(*   - Python lists are sequences; positions are 1-based here, so the      *)
(*     model's position p is the code's index p-1.                         *)
(*   - Python dicts are functions whose DOMAIN is the set of keys.         *)
(*   - Real numbers are fixed point: a score s is the integer s*SCALE.     *)
(*   - A Python str that the code takes apart (lower, strip, f-string) is  *)
(*     a sequence of one-character strings; an opaque str is a string.     *)
(*   - Each public method is one action; the ghost variable last holds     *)
(*     the name of the method that ran and what it returned or raised.     *)
(***************************************************************************)
EXTENDS Integers, Sequences, FiniteSets, TLC

VARIABLES
    hash_ids,         \* EmbeddingStore.hash_ids        (list of str)
    texts,            \* EmbeddingStore.texts           (list of str)
    embeddings,       \* EmbeddingStore.embeddings      (list of vectors)
    hash_id_to_idx,   \* EmbeddingStore.hash_id_to_idx  (dict id -> position)
    hash_id_to_row,   \* EmbeddingStore.hash_id_to_row  (dict id -> content)
    access_history,   \* EmbeddingStore.access_history  (dict id -> list of events)
    file,             \* contents of vdb_<namespace>.parquet
    ah_file,          \* contents of access_history_<namespace>.json
    faults,           \* ghost: the I/O and encoder failures so far
    now,              \* datetime.now(), in ticks of 100 days
    last,             \* ghost: the last call and its outcome
    default_strategy, \* ConflictResolver.default_strategy
    conflict_history, \* ConflictResolver.conflict_history
    facts,            \* the caller's fact lists handed to the resolver
    audit_file,       \* contents of the audit log file
    loaded_history,   \* conflict_history of a second ConflictResolver
    manager,          \* a ContextAwareMemoryManager (its attributes)
    restored,         \* a second ContextAwareMemoryManager, the one that loads
    state,            \* the dict returned by the last export_state
    aliased           \* restored.query_history is state['query_history']

memVars == <<hash_ids, texts, embeddings, hash_id_to_idx, hash_id_to_row,
             access_history>>
storeVars == <<memVars, file, ah_file, faults>>
resolverVars == <<default_strategy, conflict_history, facts, audit_file,
                  loaded_history>>
engineVars == <<manager, restored, state, aliased>>
vars == <<storeVars, now, last, resolverVars, engineVars>>

-----------------------------------------------------------------------------
(* Bounds of the model.                                                    *)

\* longest hash_ids/texts/embeddings list the model grows
MaxRecords == 3
\* longest argument list of insert_strings and delete
MaxArgs == 2
\* most access events the model appends in one run, over all logs
MaxEvents == 1
\* last tick of the clock
MaxTime == 2
\* most failures of the disk or of the encoder in one run
MaxFaults == 1
\* retention ratios are the multiples of 1/RatioDen in [0, 1]
RatioDen == 4
\* longest list of facts passed to detect_conflicts
MaxFacts == 2
\* largest access count of a fact
MaxCount == 2
\* longest audit history when single conflicts of every kind are resolved
MaxResolved == 1
\* longest audit history when batches are resolved
MaxHistory == 2
\* largest context_window_size of the engines that add queries
MaxWindow == 2
\* longest access history whose relevant events are counted
MaxTouches == 6

-----------------------------------------------------------------------------
(* Generic helpers for Python lists and dicts.                             *)

Range(s) == {s[i] : i \in 1..Len(s)}

SeqsUpTo(S, n) == UNION {[1..k -> S] : k \in 0..n}

\* list.pop(idx) at the model's position p: the list without its p-th element
Pop(s, p) == [i \in 1..(Len(s) - 1) |-> IF i < p THEN s[i] ELSE s[i + 1]]

\* dict.get(key, default)
DictGet(d, key, default) == IF key \in DOMAIN d THEN d[key] ELSE default

\* dict without key k (del d[k])
DelKey(d, k) == [x \in (DOMAIN d) \ {k} |-> d[x]]

\* dict with d[k] = v set
SetKey(d, k, v) == [x \in (DOMAIN d) \cup {k} |-> IF x = k THEN v ELSE d[x]]

EmptyDict == [x \in {} |-> 0]

Max(a, b) == IF a >= b THEN a ELSE b
Min(a, b) == IF a <= b THEN a ELSE b

\* list(dict.fromkeys(s)): first occurrences, in order (the keys of a dict
\* filled by iterating over s)
RECURSIVE DictKeys(_)
DictKeys(s) ==
    IF s = <<>> THEN <<>>
    ELSE LET init == DictKeys(SubSeq(s, 1, Len(s) - 1))
             x == s[Len(s)]
         IN  IF x \in Range(init) THEN init ELSE Append(init, x)

-----------------------------------------------------------------------------
(* The embedding model and the content hash: collaborators of the store.   *)

Texts == {"t1", "t2", "t3"}

\* compute_mdhash_id(text, prefix=namespace + "-"): an md5 digest of the
\* content behind the namespace prefix; distinct on the corpus.
MdHash(t) ==
    CASE t = "t1" -> "ns-h1"
      [] t = "t2" -> "ns-h2"
      [] t = "t3" -> "ns-h3"

HashIds == {MdHash(t) : t \in Texts}

\* the texts, and their ids, that the callers of Spec and FaultSpec pass
CallTexts == {"t1", "t2"}
CallIds == {MdHash(t) : t \in CallTexts}

\* embedding_model.batch_encode for one text: a fixed vector per content
Encode(t) ==
    CASE t = "t1" -> <<1, 0>>
      [] t = "t2" -> <<0, 1>>
      [] t = "t3" -> <<-1, 0>>

\* the query embeddings a caller supplies (np.ndarray); <<0, 0>> has norm 0
QueryEmbeddings == {<<1, 0>>, <<3, 4>>, <<0, 0>>}

\* None as a return value or an outcome
None == "None"
\* query_embedding=None: no vector
NoEmbedding == <<>>
\* a file that does not exist, and the parquet file holding a DataFrame
NoFile == [exists |-> FALSE]
\* the JSON document of the access logs: readable or not
AhDocument(ah) == [exists |-> TRUE, readable |-> TRUE, logs |-> ah]
Corrupt == [exists |-> TRUE, readable |-> FALSE]


-----------------------------------------------------------------------------
(* EmbeddingStore: derived lookups and persistence.                        *)

\* {h: idx for idx, h in enumerate(self.hash_ids)}: the last position wins
BuildIdx(ids) ==
    [h \in Range(ids) |->
        CHOOSE i \in 1..Len(ids) :
            ids[i] = h /\ \A j \in (i + 1)..Len(ids) : ids[j] # h]

\* {h: {"hash_id": h, "content": t} for h, t, e in zip(ids, txs, embs)}:
\* zip stops at the shortest list, the last row of an id wins
BuildRow(ids, txs, embs) ==
    LET n == Min(Len(ids), Min(Len(txs), Len(embs)))
        z == SubSeq(ids, 1, n)
    IN  [h \in Range(z) |-> txs[BuildIdx(z)[h]]]

\* the DataFrame written by to_parquet
Frame(ids, txs, embs) ==
    [exists |-> TRUE, hash_id |-> ids, content |-> txs, embedding |-> embs]

\* _save_access_history: open(..., 'w') then json.dump; every exception is
\* caught and logged.  A failed dump leaves a truncated document.
AhOutcomes == {"ok", "dump_fails"}

SaveAccessHistory(ah, outcome) ==
    CASE outcome = "ok" -> AhDocument(ah)
      [] outcome = "dump_fails" -> Corrupt

\* _save_data on the lists (ids, txs, embs) and the logs ah: to_parquet
\* either raises (nothing after it runs) or the lookups are rebuilt and the
\* access history is saved.
SaveData(ids, txs, embs, ah, save_ok, ah_outcome) ==
    IF save_ok
    THEN /\ file' = Frame(ids, txs, embs)
         /\ hash_id_to_row' = BuildRow(ids, txs, embs)
         /\ hash_id_to_idx' = BuildIdx(ids)
         /\ ah_file' = SaveAccessHistory(ah, ah_outcome)
         /\ faults' = IF ah_outcome = "ok" THEN faults ELSE faults + 1
    ELSE /\ ah_outcome = "ok"
         /\ faults' = faults + 1
         /\ UNCHANGED <<file, hash_id_to_row, hash_id_to_idx, ah_file>>

-----------------------------------------------------------------------------
(* EmbeddingStore.insert_strings / _upsert                                 *)

\* all_hash_ids = list(nodes_dict.keys())
AllHashIds(ts) == DictKeys([i \in 1..Len(ts) |-> MdHash(ts[i])])

\* nodes_dict[hash_id]["content"]: the last text of the call with that hash
NodeContent(ts, h) ==
    ts[CHOOSE i \in 1..Len(ts) :
          MdHash(ts[i]) = h /\ \A j \in (i + 1)..Len(ts) : MdHash(ts[j]) # h]

IsMissing(h) == h \notin DOMAIN hash_id_to_row

\* missing_ids = [h for h in all_hash_ids if h not in self.hash_id_to_row]
MissingIds(ts) == SelectSeq(AllHashIds(ts), IsMissing)

TextsToEncode(ts) ==
    [i \in 1..Len(MissingIds(ts)) |-> NodeContent(ts, MissingIds(ts)[i])]

BatchEncode(tx) == [i \in 1..Len(tx) |-> Encode(tx[i])]

\* a call in which the disk or the encoder fails
Faulty(enc_ok, save_ok, ah_outcome) ==
    ~enc_ok \/ ~save_ok \/ ah_outcome # "ok"

insert_strings(ts, enc_ok, save_ok, ah_outcome) ==
    /\ Len(hash_ids) + Len(MissingIds(ts)) <= MaxRecords
    /\ Faulty(enc_ok, save_ok, ah_outcome) => faults < MaxFaults
    /\ IF AllHashIds(ts) = <<>>
       THEN \* return: nothing to insert
            /\ enc_ok /\ save_ok /\ ah_outcome = "ok"
            /\ last' = [op |-> "insert_strings", out |-> None, texts |-> ts]
            /\ UNCHANGED <<storeVars>>
       ELSE IF MissingIds(ts) = <<>>
       THEN \* return {}: all records already exist
            /\ enc_ok /\ save_ok /\ ah_outcome = "ok"
            /\ last' = [op |-> "insert_strings", out |-> "{}", texts |-> ts]
            /\ UNCHANGED <<storeVars>>
       ELSE IF ~enc_ok
       THEN \* batch_encode raises before anything is appended
            /\ save_ok /\ ah_outcome = "ok"
            /\ last' = [op |-> "insert_strings", out |-> "EncodeError",
                        texts |-> ts]
            /\ faults' = faults + 1
            /\ UNCHANGED <<memVars, file, ah_file>>
       ELSE \* _upsert: extend the three lists, then _save_data
            /\ embeddings' = embeddings \o BatchEncode(TextsToEncode(ts))
            /\ hash_ids' = hash_ids \o MissingIds(ts)
            /\ texts' = texts \o TextsToEncode(ts)
            /\ SaveData(hash_ids', texts', embeddings', access_history,
                        save_ok, ah_outcome)
            /\ last' = [op |-> "insert_strings",
                        out |-> IF save_ok THEN None ELSE "IOError",
                        texts |-> ts]
            /\ UNCHANGED access_history
    /\ UNCHANGED <<now, resolverVars, engineVars>>

-----------------------------------------------------------------------------
(* EmbeddingStore.delete                                                   *)

\* np.sort(indices)[::-1]
RECURSIVE SortDesc(_)
SortDesc(s) ==
    IF s = <<>> THEN <<>>
    ELSE LET m == CHOOSE i \in 1..Len(s) : \A j \in 1..Len(s) : s[i] >= s[j]
         IN  <<s[m]>> \o SortDesc(Pop(s, m))

\* the loop over sorted_indices on the state st = [ids, txs, embs, ah]:
\* self.hash_ids[idx] raises IndexError when idx is past the end
RECURSIVE DeleteLoop(_, _)
DeleteLoop(idxs, st) ==
    IF idxs = <<>> THEN st
    ELSE LET idx == Head(idxs)
         IN  IF idx > Len(st.ids)
             THEN [st EXCEPT !.raised = TRUE]
             ELSE DeleteLoop(Tail(idxs),
                     [ids |-> Pop(st.ids, idx),
                      txs |-> Pop(st.txs, idx),
                      embs |-> Pop(st.embs, idx),
                      ah |-> DelKey(st.ah, st.ids[idx]),
                      raised |-> FALSE])

DeleteResult(hs) ==
    DeleteLoop(SortDesc([i \in 1..Len(hs) |-> hash_id_to_idx[hs[i]]]),
               [ids |-> hash_ids, txs |-> texts, embs |-> embeddings,
                ah |-> access_history, raised |-> FALSE])

\* a delete that skips the identifiers it does not know and removes the rest
delete_SkipUnknown(hs, save_ok, ah_outcome) ==
    LET Known(h) == h \in DOMAIN hash_id_to_idx
        r == DeleteResult(SelectSeq(hs, Known))
    IN  /\ Faulty(TRUE, save_ok, ah_outcome) => faults < MaxFaults
        /\ hash_ids' = r.ids
        /\ texts' = r.txs
        /\ embeddings' = r.embs
        /\ access_history' = r.ah
        /\ IF r.raised
           THEN /\ save_ok /\ ah_outcome = "ok"
                /\ last' = [op |-> "delete", out |-> "IndexError"]
                /\ UNCHANGED <<file, hash_id_to_row, hash_id_to_idx,
                               ah_file, faults>>
           ELSE /\ SaveData(r.ids, r.txs, r.embs, r.ah, save_ok, ah_outcome)
                /\ last' = [op |-> "delete",
                            out |-> IF save_ok THEN None ELSE "IOError"]
        /\ UNCHANGED <<now, resolverVars, engineVars>>

delete(hs, save_ok, ah_outcome) ==
    /\ Faulty(TRUE, save_ok, ah_outcome) => faults < MaxFaults
    /\ IF \E i \in 1..Len(hs) : hs[i] \notin DOMAIN hash_id_to_idx
       THEN \* self.hash_id_to_idx[hash] raises KeyError in the first loop
            /\ save_ok /\ ah_outcome = "ok"
            /\ last' = [op |-> "delete", out |-> "KeyError"]
            /\ UNCHANGED <<storeVars>>
       ELSE LET r == DeleteResult(hs)
            IN  /\ hash_ids' = r.ids
                /\ texts' = r.txs
                /\ embeddings' = r.embs
                /\ access_history' = r.ah
                /\ IF r.raised
                   THEN /\ save_ok /\ ah_outcome = "ok"
                        /\ last' = [op |-> "delete", out |-> "IndexError"]
                        /\ UNCHANGED <<file, hash_id_to_row, hash_id_to_idx,
                                       ah_file, faults>>
                   ELSE /\ SaveData(r.ids, r.txs, r.embs, r.ah,
                                    save_ok, ah_outcome)
                        /\ last' = [op |-> "delete",
                                    out |-> IF save_ok THEN None ELSE "IOError"]
    /\ UNCHANGED <<now, resolverVars, engineVars>>


-----------------------------------------------------------------------------
(* EmbeddingStore.__init__ / _load_data / _load_access_history             *)

\* an opening that gives up the records when the access history cannot be
\* loaded
Reopen_AllOrNothing ==
    /\ IF ~file.exists \/ ~(ah_file.exists /\ ah_file.readable)
       THEN /\ hash_ids' = <<>> /\ texts' = <<>> /\ embeddings' = <<>>
            /\ hash_id_to_idx' = EmptyDict
            /\ hash_id_to_row' = EmptyDict
       ELSE /\ hash_ids' = file.hash_id
            /\ texts' = file.content
            /\ embeddings' = file.embedding
            /\ hash_id_to_idx' = BuildIdx(file.hash_id)
            /\ hash_id_to_row' = BuildRow(file.hash_id, file.content, file.content)
    /\ access_history' = IF ah_file.exists /\ ah_file.readable
                         THEN ah_file.logs ELSE EmptyDict
    /\ last' = [op |-> "__init__", out |-> None]
    /\ UNCHANGED <<file, ah_file, faults, now, resolverVars, engineVars>>

\* a new EmbeddingStore opened on the same directory and namespace
Reopen ==
    /\ IF ~file.exists
       THEN /\ hash_ids' = <<>> /\ texts' = <<>> /\ embeddings' = <<>>
            /\ hash_id_to_idx' = EmptyDict
            /\ hash_id_to_row' = EmptyDict
       ELSE /\ hash_ids' = file.hash_id
            /\ texts' = file.content
            /\ embeddings' = file.embedding
            /\ hash_id_to_idx' = BuildIdx(file.hash_id)
            \* zip(self.hash_ids, self.texts): two lists only
            /\ hash_id_to_row' = BuildRow(file.hash_id, file.content, file.content)
    /\ access_history' = IF ah_file.exists /\ ah_file.readable
                         THEN ah_file.logs ELSE EmptyDict
    /\ last' = [op |-> "__init__", out |-> None]
    /\ UNCHANGED <<file, ah_file, faults, now, resolverVars, engineVars>>

-----------------------------------------------------------------------------
(* Vectors and fixed-point scores.                                         *)

\* fixed-point resolution of similarities and scores
SCALE == 10 * 10 * 10

Dot(u, v) == u[1] * v[1] + u[2] * v[2]

\* np.linalg.norm, exact on the vectors of the model (integer norms)
Norm(v) == CHOOSE n \in 0..(Dot(v, v)) : n * n = Dot(v, v)

\* ContextAwareMemoryManager._cosine_similarity
CosineSimilarity(vec1, vec2) ==
    LET norm1 == Norm(vec1)
        norm2 == Norm(vec2)
    IN  IF norm1 = 0 \/ norm2 = 0 THEN 0
        ELSE (Dot(vec1, vec2) * SCALE) \div (norm1 * norm2)

\* record_access: dot / (norm * norm + 1e-10); the 1e-10 is below the
\* fixed-point resolution and only turns 0/0 into 0
AccessSimilarity(query_embedding, memory_embedding) ==
    IF Norm(query_embedding) * Norm(memory_embedding) = 0 THEN 0
    ELSE (Dot(query_embedding, memory_embedding) * SCALE)
             \div (Norm(query_embedding) * Norm(memory_embedding))

-----------------------------------------------------------------------------
(* EmbeddingStore.record_access                                            *)

\* the (query, query_embedding) pairs a caller passes; an embedding of None
\* is the default argument
Queries == {[query |-> "q1", embedding |-> <<1, 0>>],
            [query |-> "q3", embedding |-> NoEmbedding]}

RECURSIVE SumLens(_, _)
SumLens(d, keys) ==
    IF keys = {} THEN 0
    ELSE LET k == CHOOSE x \in keys : TRUE
         IN  Len(d[k]) + SumLens(d, keys \ {k})

EventCount == SumLens(access_history, DOMAIN access_history)

\* the event dict; computed_similarity is <<>> when the key is missing
\* and <<s>> when it holds s
Event(q, sim) ==
    [timestamp |-> now, query |-> q.query, computed_similarity |-> sim]

\* access_history after "if hash_id not in self.access_history: ... = []"
WithLog(h) ==
    IF h \in DOMAIN access_history THEN access_history
    ELSE SetKey(access_history, h, <<>>)

AppendEvent(h, e) == SetKey(WithLog(h), h, Append(WithLog(h)[h], e))

record_access(h, q) ==
    /\ EventCount < MaxEvents
    /\ IF q.embedding # NoEmbedding /\ h \in DOMAIN hash_id_to_idx
       THEN IF hash_id_to_idx[h] > Len(embeddings)
            THEN \* self.embeddings[idx] raises IndexError
                 /\ access_history' = WithLog(h)
                 /\ last' = [op |-> "record_access", out |-> "IndexError",
                             hash_id |-> h]
            ELSE /\ access_history' =
                       AppendEvent(h, Event(q,
                           <<AccessSimilarity(q.embedding,
                                              embeddings[hash_id_to_idx[h]])>>))
                 /\ last' = [op |-> "record_access", out |-> None,
                             hash_id |-> h]
       ELSE /\ access_history' = AppendEvent(h, Event(q, <<>>))
            /\ last' = [op |-> "record_access", out |-> None, hash_id |-> h]
    /\ UNCHANGED <<hash_ids, texts, embeddings, hash_id_to_idx, hash_id_to_row,
                   file, ah_file, faults, now, resolverVars, engineVars>>

\* get_access_history: self.access_history.get(hash_id, [])
get_access_history(h) ==
    IF h \in DOMAIN access_history THEN access_history[h] ELSE <<>>

\* get_access_count: len(self.access_history.get(hash_id, []))
get_access_count(h) == Len(get_access_history(h))

\* get_last_access_time: history[-1]['timestamp'], <<>> standing for None
get_last_access_time(h) ==
    LET history == get_access_history(h)
    IN  IF history # <<>> THEN <<history[Len(history)].timestamp>> ELSE <<>>

\* the clock moves on between calls
Tick ==
    /\ now < MaxTime
    /\ now' = now + 1
    /\ last' = [op |-> "tick", out |-> None]
    /\ UNCHANGED <<storeVars, resolverVars, engineVars>>


-----------------------------------------------------------------------------
(* ContextAwareMemoryManager: configuration (the defaults of __init__) and *)
(* calculate_activation_score.                                             *)

\* recency_weight = 0.3, frequency_weight = 0.2, relevance_weight = 0.5,
\* in tenths; __init__ divides each by their sum
RECENCY_WEIGHT == 3
FREQUENCY_WEIGHT == 2
RELEVANCE_WEIGHT == 5
TotalWeight == RECENCY_WEIGHT + FREQUENCY_WEIGHT + RELEVANCE_WEIGHT

\* relevance_threshold = 0.3, in 1/SCALE
RELEVANCE_THRESHOLD == 300
\* min_activation_threshold = 0.05, in 1/SCALE
MIN_ACTIVATION_THRESHOLD == 50
\* relevant_contexts / 5
FREQUENCY_NORM == 5

\* np.exp(-self.decay_rate * days) for decay_rate = 0.01 and days a whole
\* number of ticks of 100 days: e^-1, e^-2, ... rounded to 1/SCALE.  days is
\* negative when the last access is later than the scoring time, and the
\* exponential is then e^1, e^2, ... (beyond the table: its last entry, a
\* lower bound of the true value)
ExpDecay(ticks) ==
    LET table == <<1000, 368, 135, 50, 18, 7, 2, 1>>
        growth == <<2718, 7389, 20086, 54598, 148413, 403429>>
    IN  IF ticks < 0
        THEN growth[Min(-ticks, Len(growth))]
        ELSE IF ticks + 1 <= Len(table) THEN table[ticks + 1] ELSE 0

\* ContextAwareMemoryManager._count_relevant_contexts
RECURSIVE CountRelevantContexts(_, _)
CountRelevantContexts(hist, threshold) ==
    IF hist = <<>> THEN 0
    ELSE (IF Head(hist).computed_similarity # <<>>
             /\ Head(hist).computed_similarity[1] >= threshold
          THEN 1 ELSE 0)
         + CountRelevantContexts(Tail(hist), threshold)

SemanticRelevance(q, m) == Max(0, CosineSimilarity(q, m))

RecencyBonus(hist, t) ==
    IF hist # <<>> THEN ExpDecay(t - hist[Len(hist)].timestamp) ELSE 0

ContextFrequency(hist) ==
    IF hist # <<>>
    THEN Min(SCALE, (CountRelevantContexts(hist, RELEVANCE_THRESHOLD) * SCALE)
                        \div FREQUENCY_NORM)
    ELSE 0

\* scores['total_activation'], in 1/(SCALE * TotalWeight): the normalised
\* weights are w / TotalWeight
TotalActivation(hist, q, m, t) ==
    RELEVANCE_WEIGHT * SemanticRelevance(q, m)
    + RECENCY_WEIGHT * RecencyBonus(hist, t)
    + FREQUENCY_WEIGHT * ContextFrequency(hist)

\* scores['should_retain'] for the total activation total
ShouldRetainAt(total, hist) ==
    \/ total >= MIN_ACTIVATION_THRESHOLD * TotalWeight
    \/ Len(hist) = 0

ShouldRetain(hist, q, m, t) ==
    ShouldRetainAt(TotalActivation(hist, q, m, t), hist)

calculate_activation_score(h, hist, q, m, t) ==
    LET semantic_relevance == SemanticRelevance(q, m)
        recency_bonus == RecencyBonus(hist, t)
        context_frequency == ContextFrequency(hist)
        total_activation == RELEVANCE_WEIGHT * semantic_relevance
                            + RECENCY_WEIGHT * recency_bonus
                            + FREQUENCY_WEIGHT * context_frequency
    IN  [hash_id |-> h,
         semantic_relevance |-> semantic_relevance,
         recency_bonus |-> recency_bonus,
         context_frequency |-> context_frequency,
         total_activation |-> total_activation,
         should_retain |-> ShouldRetainAt(total_activation, hist)]

-----------------------------------------------------------------------------
(* calculate_batch_activation and get_memories_to_forget                   *)

\* EmbeddingStore.get_embedding: a KeyError or an IndexError when the
\* lookup has no entry for h or points past the end of the list
EmbeddingError(h) ==
    IF h \notin DOMAIN hash_id_to_idx THEN "KeyError"
    ELSE IF hash_id_to_idx[h] > Len(embeddings) THEN "IndexError"
    ELSE None

get_embedding(h) == embeddings[hash_id_to_idx[h]]

\* .astype(dtype): the vector in the width asked for; the components of the
\* model's vectors are whole numbers, which every float width holds exactly
AsType(v) == [i \in 1..Len(v) |-> v[i]]

\* a caller asks for the vector of h
GetEmbedding(h) ==
    /\ last' = [op |-> "get_embedding", out |-> EmbeddingError(h),
                hash_ids |-> <<h>>,
                result |-> IF EmbeddingError(h) = None
                           THEN <<AsType(get_embedding(h))>> ELSE <<>>]
    /\ UNCHANGED <<storeVars, now, resolverVars, engineVars>>

\* get_embeddings: the list comprehension over the lookup raises KeyError
\* at the first id without an entry; indexing the array of all embeddings
\* raises IndexError when an index is past its end
EmbeddingsError(hs) ==
    IF \E i \in 1..Len(hs) : hs[i] \notin DOMAIN hash_id_to_idx
    THEN "KeyError"
    ELSE IF \E i \in 1..Len(hs) : hash_id_to_idx[hs[i]] > Len(embeddings)
    THEN "IndexError"
    ELSE None

EmbeddingsOf(hs) ==
    [i \in 1..Len(hs) |-> AsType(embeddings[hash_id_to_idx[hs[i]]])]

get_embeddings(hs) ==
    /\ last' = [op |-> "get_embeddings",
                out |-> IF hs = <<>> THEN None ELSE EmbeddingsError(hs),
                hash_ids |-> hs,
                result |-> IF hs # <<>> /\ EmbeddingsError(hs) = None
                           THEN EmbeddingsOf(hs) ELSE <<>>]
    /\ UNCHANGED <<storeVars, now, resolverVars, engineVars>>

\* the first exception calculate_batch_activation meets over get_all_ids()
BatchError ==
    IF \A i \in 1..Len(hash_ids) : EmbeddingError(hash_ids[i]) = None THEN None
    ELSE EmbeddingError(hash_ids[
            CHOOSE i \in 1..Len(hash_ids) :
                /\ EmbeddingError(hash_ids[i]) # None
                /\ \A j \in 1..(i - 1) : EmbeddingError(hash_ids[j]) = None])

\* the loop of calculate_batch_activation over the ids keys
RECURSIVE ScoreAll(_, _)
ScoreAll(keys, q) ==
    IF keys = <<>> THEN <<>>
    ELSE <<calculate_activation_score(Head(keys), get_access_history(Head(keys)),
                                      q, get_embedding(Head(keys)), now)>>
         \o ScoreAll(Tail(keys), q)

\* all_activation_scores.items(): one entry per id, in first-insertion order
calculate_batch_activation(q) == ScoreAll(DictKeys(hash_ids), q)

\* sorted(..., key=total_activation, reverse=True): stable, so equal scores
\* keep their order
RECURSIVE SortByActivation(_)
SortByActivation(items) ==
    IF items = <<>> THEN <<>>
    ELSE LET m == CHOOSE i \in 1..Len(items) :
                    /\ \A j \in 1..Len(items) :
                          items[i].total_activation >= items[j].total_activation
                    /\ \A j \in 1..(i - 1) :
                          items[j].total_activation < items[i].total_activation
         IN  <<items[m]>> \o SortByActivation(SubSeq(items, 1, m - 1)
                                              \o SubSeq(items, m + 1, Len(items)))

\* a retain_count that stops one short of the count asked for
RetainCount_OneShort(total_count, num) ==
    Max(1, (total_count * num) \div RatioDen - 1)

\* retain_count = max(1, int(total_count * retention_ratio)) for the
\* retention ratio num / RatioDen
RetainCount(total_count, num) == Max(1, (total_count * num) \div RatioDen)

\* sorted_memories[retain_count:]
Remainder(sorted, retain_count) ==
    SubSeq(sorted, retain_count + 1, Len(sorted))

IsForgettable(score) == score.should_retain = FALSE

\* the remainder returned whole, should_retain not consulted
ToForget_Unfiltered(sorted, retain_count) ==
    [i \in 1..Len(Remainder(sorted, retain_count)) |->
        Remainder(sorted, retain_count)[i].hash_id]

\* the list comprehension over sorted_memories[retain_count:]
ToForget(sorted, retain_count) ==
    LET picked == SelectSeq(Remainder(sorted, retain_count), IsForgettable)
    IN  [i \in 1..Len(picked) |-> picked[i].hash_id]

get_memories_to_forget(q, num) ==
    /\ IF BatchError # None
       THEN last' = [op |-> "get_memories_to_forget", out |-> BatchError,
                     query |-> q, ratio |-> num, to_forget |-> <<>>]
       ELSE LET sorted_memories == SortByActivation(calculate_batch_activation(q))
                total_count == Len(sorted_memories)
            IN  last' = [op |-> "get_memories_to_forget", out |-> "list",
                         query |-> q, ratio |-> num,
                         to_forget |-> ToForget(sorted_memories,
                                                RetainCount(total_count, num))]
    /\ UNCHANGED <<storeVars, now, resolverVars, engineVars>>


-----------------------------------------------------------------------------
(* ContextAwareMemoryManager as an object: __init__, add_query_context,    *)
(* calculate_activation_score on the object's own configuration,           *)
(* export_state and load_state.                                            *)

\* context_window_size: int = 10
CONTEXT_WINDOW_SIZE == 10
\* decay_rate: float = 0.01, in hundredths per day
DECAY_RATE == 1

\* ContextAwareMemoryManager.__init__: weights in tenths are divided by
\* their sum and kept in 1/SCALE; the window starts empty
NewManager(context_window_size, recency_weight, frequency_weight, relevance_weight, relevance_threshold, decay_rate) ==
    LET total_weight == recency_weight + frequency_weight + relevance_weight
    IN  [context_window_size |-> context_window_size,
         recency_weight |-> (recency_weight * SCALE) \div total_weight,
         frequency_weight |-> (frequency_weight * SCALE) \div total_weight,
         relevance_weight |-> (relevance_weight * SCALE) \div total_weight,
         relevance_threshold |-> relevance_threshold,
         decay_rate |-> decay_rate,
         query_history |-> <<>>]

\* ContextAwareMemoryManager() with every default
DefaultManager ==
    NewManager(CONTEXT_WINDOW_SIZE, RECENCY_WEIGHT, FREQUENCY_WEIGHT,
               RELEVANCE_WEIGHT, RELEVANCE_THRESHOLD, DECAY_RATE)

\* the engines the callers construct: every window size up to MaxWindow with
\* the default weights or with weights, threshold and decay rate of their own
Managers ==
    {NewManager(n, RECENCY_WEIGHT, FREQUENCY_WEIGHT, RELEVANCE_WEIGHT,
                RELEVANCE_THRESHOLD, DECAY_RATE) : n \in 0..MaxWindow}
    \cup {NewManager(n, 1, 1, 2, 2 * RELEVANCE_THRESHOLD, 2 * DECAY_RATE) :
              n \in 0..MaxWindow}

\* context_event of add_query_context (tolist() keeps the components)
ContextEvent(q) ==
    [timestamp |-> now, query |-> q.query, embedding |-> q.embedding]

\* the window after append and the pop(0) that keeps its size
PushWindow_DropNewest(self, e) ==
    LET appended == Append(self.query_history, e)
    IN  IF Len(appended) > self.context_window_size
        THEN SubSeq(appended, 1, Len(appended) - 1)
        ELSE appended

PushWindow(self, e) ==
    LET appended == Append(self.query_history, e)
    IN  IF Len(appended) > self.context_window_size
        THEN Pop(appended, 1)
        ELSE appended

\* add_query_context on the engine named who; the list of restored is the
\* list inside the state dict once load_state has taken it from there
add_query_context(who, q) ==
    LET e == ContextEvent(q)
    IN  /\ IF who = "manager"
           THEN /\ Len(manager.query_history) <= MaxWindow
                /\ manager' = [manager EXCEPT
                                  !.query_history = PushWindow(manager, e)]
                /\ UNCHANGED <<restored, state>>
           ELSE /\ Len(restored.query_history) <= MaxWindow
                /\ restored' = [restored EXCEPT
                                   !.query_history = PushWindow(restored, e)]
                /\ IF aliased
                   THEN state' = [state EXCEPT
                                     !.query_history = PushWindow(restored, e)]
                   ELSE UNCHANGED state
                /\ UNCHANGED manager
        /\ last' = [op |-> "add_query_context", out |-> None, who |-> who,
                    event |-> e,
                    before |-> IF who = "manager" THEN manager.query_history
                               ELSE restored.query_history]
        /\ UNCHANGED <<storeVars, now, resolverVars, aliased>>

\* calculate_activation_score on the engine self: the weights are the
\* normalised ones in 1/SCALE, so total_activation is in 1/(SCALE * SCALE)
RetainRule_NoNewMemoryClause(total_activation, hist) ==
    total_activation >= MIN_ACTIVATION_THRESHOLD * SCALE

RetainRule(total_activation, hist) ==
    \/ total_activation >= MIN_ACTIVATION_THRESHOLD * SCALE
    \/ Len(hist) = 0

\* min(1.0, relevant_contexts / 5) without its cap
NormalisedFrequency_Uncapped(relevant_contexts) ==
    (relevant_contexts * SCALE) \div FREQUENCY_NORM

\* min(1.0, relevant_contexts / 5)
NormalisedFrequency(relevant_contexts) ==
    Min(SCALE, (relevant_contexts * SCALE) \div FREQUENCY_NORM)

activation_score(self, h, hist, q, m, t) ==
    LET semantic_relevance == SemanticRelevance(q, m)
        recency_bonus ==
            IF hist # <<>>
            THEN ExpDecay(self.decay_rate * (t - hist[Len(hist)].timestamp))
            ELSE 0
        context_frequency ==
            IF hist # <<>>
            THEN NormalisedFrequency(
                     CountRelevantContexts(hist, self.relevance_threshold))
            ELSE 0
        total_activation == self.relevance_weight * semantic_relevance
                            + self.recency_weight * recency_bonus
                            + self.frequency_weight * context_frequency
    IN  [hash_id |-> h,
         semantic_relevance |-> semantic_relevance,
         recency_bonus |-> recency_bonus,
         context_frequency |-> context_frequency,
         total_activation |-> total_activation,
         should_retain |-> RetainRule(total_activation, hist)]

\* the access histories handed to calculate_activation_score at time t:
\* none, or one event of an earlier or the current tick whose similarity is
\* absent, low or high
ScoreHistories(t) ==
    {<<>>} \cup
    {<<[timestamp |-> ts, query |-> "q1", computed_similarity |-> sim]>> :
        ts \in 0..t, sim \in {<<>>, <<0>>, <<SCALE>>}}

\* a caller scores one memory on the engine named who, at a scoring time of its
\* own choice
ScoreCallAt(who, h, hist, q, m, current_time) ==
    LET self == IF who = "manager" THEN manager ELSE restored
    IN  /\ last' = [op |-> "calculate_activation_score", out |-> "scores",
                    who |-> who, hist |-> hist, current_time |-> current_time,
                    scores |-> activation_score(self, h, hist, q, m,
                                                current_time)]
        /\ UNCHANGED <<storeVars, now, resolverVars, engineVars>>

\* current_time is None: the scoring time is datetime.now()
ScoreCall(who, h, hist, q, m) == ScoreCallAt(who, h, hist, q, m, now)

\* a literal weight given in tenths, in 1/SCALE
Tenths(w) == (w * SCALE) \div 10

\* export_state of manager: a new dict with a deep copy of the window
export_state ==
    /\ state' = [context_window_size |-> manager.context_window_size,
                 recency_weight |-> manager.recency_weight,
                 frequency_weight |-> manager.frequency_weight,
                 relevance_weight |-> manager.relevance_weight,
                 relevance_threshold |-> manager.relevance_threshold,
                 decay_rate |-> manager.decay_rate,
                 query_history |-> manager.query_history]
    /\ aliased' = FALSE
    /\ last' = [op |-> "export_state", out |-> "state"]
    /\ UNCHANGED <<storeVars, now, resolverVars, manager, restored>>

\* load_state(d): every attribute is d.get(key, default)
LoadedManager_DefaultThreshold(d) ==
    [context_window_size |->
         DictGet(d, "context_window_size", CONTEXT_WINDOW_SIZE),
     recency_weight |-> DictGet(d, "recency_weight", Tenths(RECENCY_WEIGHT)),
     frequency_weight |->
         DictGet(d, "frequency_weight", Tenths(FREQUENCY_WEIGHT)),
     relevance_weight |->
         DictGet(d, "relevance_weight", Tenths(RELEVANCE_WEIGHT)),
     relevance_threshold |->
         DictGet(d, "relevance_treshold", RELEVANCE_THRESHOLD),
     decay_rate |-> DictGet(d, "decay_rate", DECAY_RATE),
     query_history |-> DictGet(d, "query_history", <<>>)]

LoadedManager(d) ==
    [context_window_size |->
         DictGet(d, "context_window_size", CONTEXT_WINDOW_SIZE),
     recency_weight |-> DictGet(d, "recency_weight", Tenths(RECENCY_WEIGHT)),
     frequency_weight |->
         DictGet(d, "frequency_weight", Tenths(FREQUENCY_WEIGHT)),
     relevance_weight |->
         DictGet(d, "relevance_weight", Tenths(RELEVANCE_WEIGHT)),
     relevance_threshold |->
         DictGet(d, "relevance_threshold", RELEVANCE_THRESHOLD),
     decay_rate |-> DictGet(d, "decay_rate", DECAY_RATE),
     query_history |-> DictGet(d, "query_history", <<>>)]

\* restored.load_state(state); the window of restored is from then on the
\* list object held by the dict, when the dict holds one
load_state ==
    /\ restored' = LoadedManager(state)
    /\ aliased' = ("query_history" \in DOMAIN state)
    /\ last' = [op |-> "load_state", out |-> None]
    /\ UNCHANGED <<storeVars, now, resolverVars, manager, state>>

\* two engines as constructed, no state exported yet
EngineIdle ==
    /\ manager = DefaultManager
    /\ restored = DefaultManager
    /\ state = EmptyDict
    /\ aliased = FALSE

-----------------------------------------------------------------------------
(* The store and the activation engine as one state machine.               *)

\* ConflictResolver() as constructed, with no call made yet
ResolverIdle ==
    /\ default_strategy = "keep_new"
    /\ conflict_history = <<>>
    /\ facts = [existing |-> <<>>, new |-> <<>>]
    /\ audit_file = NoFile
    /\ loaded_history = <<>>

\* EmbeddingStore.__init__ on an empty working directory
StoreEmpty ==
    /\ hash_ids = <<>> /\ texts = <<>> /\ embeddings = <<>>
    /\ hash_id_to_idx = EmptyDict
    /\ hash_id_to_row = EmptyDict
    /\ access_history = EmptyDict
    /\ file = NoFile
    /\ ah_file = NoFile
    /\ faults = 0

Init ==
    /\ StoreEmpty
    /\ now = 0
    /\ last = [op |-> "__init__", out |-> None]
    /\ ResolverIdle
    /\ EngineIdle

\* the calls on the store, while the disk and the encoder work
Next ==
    \/ \E ts \in SeqsUpTo(CallTexts, MaxArgs) : insert_strings(ts, TRUE, TRUE, "ok")
    \/ \E hs \in SeqsUpTo(CallIds, MaxArgs) : delete(hs, TRUE, "ok")
    \/ \E h \in CallIds, q \in Queries : record_access(h, q)
    \/ Reopen

Spec == Init /\ [][Next]_vars

\* the same calls, of which up to MaxFaults meet a failing disk or encoder
FaultNext ==
    \/ \E ts \in SeqsUpTo(CallTexts, MaxArgs), enc_ok \in BOOLEAN,
          save_ok \in BOOLEAN, ah_outcome \in AhOutcomes :
          insert_strings(ts, enc_ok, save_ok, ah_outcome)
    \/ \E hs \in SeqsUpTo(CallIds, MaxArgs), save_ok \in BOOLEAN,
          ah_outcome \in AhOutcomes :
          delete(hs, save_ok, ah_outcome)
    \/ \E h \in CallIds, q \in Queries : record_access(h, q)
    \/ Reopen

FaultSpec == Init /\ [][FaultNext]_vars

\* the same calls and faults, and the callers that read vectors back
LookupNext ==
    \/ FaultNext
    \/ \E h \in CallIds : GetEmbedding(h)
    \/ \E hs \in SeqsUpTo(CallIds, MaxArgs) : get_embeddings(hs)

LookupSpec == Init /\ [][LookupNext]_vars


-----------------------------------------------------------------------------
(* The activation engine over a store opened from its persisted files.     *)

\* the text behind a content hash
TextOf(h) == CHOOSE t \in Texts : MdHash(t) = h

\* lists without repetition, as a DataFrame written by _save_data of a
\* consistent store holds them
NoDupSeqs(S, n) ==
    {s \in SeqsUpTo(S, n) : \A i, j \in 1..Len(s) : i # j => s[i] # s[j]}

\* EmbeddingStore.__init__ / _load_data on a directory that holds the
\* parquet file of ids and the access-history document logs, at time t
Loaded(ids, logs, t) ==
    /\ hash_ids = ids
    /\ texts = [i \in 1..Len(ids) |-> TextOf(ids[i])]
    /\ embeddings = [i \in 1..Len(ids) |-> Encode(TextOf(ids[i]))]
    /\ hash_id_to_idx = BuildIdx(ids)
    /\ hash_id_to_row = BuildRow(ids, texts, texts)
    /\ access_history = logs
    /\ file = Frame(ids, texts, embeddings)
    /\ ah_file = AhDocument(logs)
    /\ faults = 0
    /\ now = t
    /\ last = [op |-> "__init__", out |-> None]

ForgetInit ==
    /\ \E ids \in NoDupSeqs(HashIds, MaxRecords) : Loaded(ids, EmptyDict, 0)
    /\ ResolverIdle
    /\ EngineIdle

\* the records that are scored are accessed, queries are evaluated and time
\* passes
ForgetNext ==
    \/ \E h \in Range(hash_ids), q \in Queries : record_access(h, q)
    \/ \E q \in QueryEmbeddings, num \in 0..RatioDen :
          get_memories_to_forget(q, num)
    \/ Tick

ForgetSpec == ForgetInit /\ [][ForgetNext]_vars

\* the calls on the store, time passing, and callers that ask what to
\* forget with retention_ratio = 1.0
KeepAllNext ==
    \/ Next
    \/ Tick
    \/ \E q \in QueryEmbeddings : get_memories_to_forget(q, RatioDen)

KeepAllSpec == Init /\ [][KeepAllNext]_vars

-----------------------------------------------------------------------------
(* Two engines: manager adds queries, scores and exports its state;        *)
(* restored loads the exported state, and then adds queries and scores too.*)

EngineInit ==
    /\ StoreEmpty
    /\ now = 0
    /\ last = [op |-> "__init__", out |-> None]
    /\ ResolverIdle
    /\ manager \in Managers
    /\ restored = DefaultManager
    /\ state = EmptyDict
    /\ aliased = FALSE

EngineNext ==
    \/ \E who \in {"manager", "restored"}, q \in Queries :
          add_query_context(who, q)
    \/ export_state
    \/ load_state

EngineSpec == EngineInit /\ [][EngineNext]_vars

\* memories are scored on both engines as time passes
ScoreNext ==
    \/ \E who \in {"manager", "restored"}, h \in CallIds,
          hist \in ScoreHistories(now), q \in QueryEmbeddings :
          ScoreCall(who, h, hist, q, Encode(TextOf(h)))
    \/ Tick

ScoreSpec == EngineInit /\ [][ScoreNext]_vars

\* the callers that pass current_time themselves: any tick, earlier or later
\* than the accesses of the history they pass
ClockNext ==
    \E who \in {"manager", "restored"}, h \in CallIds,
       hist \in ScoreHistories(MaxTime), q \in QueryEmbeddings,
       current_time \in 0..MaxTime :
       ScoreCallAt(who, h, hist, q, Encode(TextOf(h)), current_time)

ClockSpec == EngineInit /\ [][ClockNext]_vars

\* the events of a long access history: the similarity is absent, just
\* below the default threshold, or equal to it
TouchEvents ==
    {[timestamp |-> 0, query |-> "q1", computed_similarity |-> sim] :
        sim \in {<<>>, <<RELEVANCE_THRESHOLD - 1>>, <<RELEVANCE_THRESHOLD>>}}

\* a store opened with one record whose access history has up to MaxTouches
\* events, and an engine
FrequencyInit ==
    /\ \E hist \in SeqsUpTo(TouchEvents, MaxTouches) :
          Loaded(<<"ns-h1">>, "ns-h1" :> hist, 0)
    /\ ResolverIdle
    /\ manager \in Managers
    /\ restored = DefaultManager
    /\ state = EmptyDict
    /\ aliased = FALSE

\* the record is scored on its stored access history
FrequencyNext ==
    ScoreCall("manager", "ns-h1", get_access_history("ns-h1"), <<1, 0>>,
              get_embedding("ns-h1"))

FrequencySpec == FrequencyInit /\ [][FrequencyNext]_vars

-----------------------------------------------------------------------------
(* Opening a store on a working directory as an earlier run left it.       *)

\* the access histories an earlier run wrote: none, or one event for one id
DirectoryLogs ==
    {EmptyDict} \cup
    {h :> <<[timestamp |-> 0, query |-> "q3", computed_similarity |-> <<>>]>> :
        h \in CallIds}

\* access_history_<namespace>.json: absent, unparsable or a document
AhFiles == {NoFile, Corrupt} \cup {AhDocument(logs) : logs \in DirectoryLogs}

\* vdb_<namespace>.parquet: absent or the frame of a run's records
Files ==
    {NoFile} \cup
    {Frame(ids, [i \in 1..Len(ids) |-> TextOf(ids[i])],
           [i \in 1..Len(ids) |-> Encode(TextOf(ids[i]))]) :
        ids \in NoDupSeqs(HashIds, MaxRecords)}

\* no store is open yet; the directory holds any of the files above
OpenInit ==
    /\ hash_ids = <<>> /\ texts = <<>> /\ embeddings = <<>>
    /\ hash_id_to_idx = EmptyDict
    /\ hash_id_to_row = EmptyDict
    /\ access_history = EmptyDict
    /\ file \in Files
    /\ ah_file \in AhFiles
    /\ faults = 0
    /\ now = 0
    /\ last = [op |-> "no call yet", out |-> None]
    /\ ResolverIdle
    /\ EngineIdle

OpenNext == Reopen

OpenSpec == OpenInit /\ [][OpenNext]_vars


-----------------------------------------------------------------------------
(* Claims about the store.                                                 *)

\* the three lists are parallel and the lookup sends every stored id to
\* the one position where it sits
Consistent ==
    /\ Len(hash_ids) = Len(texts)
    /\ Len(texts) = Len(embeddings)
    /\ DOMAIN hash_id_to_idx = Range(hash_ids)
    /\ \A i \in 1..Len(hash_ids) : hash_id_to_idx[hash_ids[i]] = i

\* the last call was a mutation of the store that returned to its caller
MutationReturned ==
    /\ last.op \in {"insert_strings", "delete"}
    /\ last.out \in {None, "{}"}

\* C1: after every insert_strings or delete call that returns, the three
\* lists have equal length and the id -> index lookup sends each stored id
\* to exactly its position (no id twice, no entry for a removed record).
C1_ConsistentAfterMutation == MutationReturned => Consistent

\* how often x occurs in the list s
Occurrences(s, x) == Cardinality({i \in 1..Len(s) : s[i] = x})

\* C2: insert_strings of a text whose content hash is already stored
\* adds no record for it: every id stored before the call is stored
\* exactly as often after it, so a text upserted twice is stored once.
C2_UpsertIdempotent ==
    [][last'.op = "insert_strings" =>
          \A t \in Texts :
              MdHash(t) \in Range(hash_ids) =>
                  /\ Occurrences(hash_ids', MdHash(t)) = 1
                  /\ Occurrences(texts', t) = 1]_vars

\* the rows (id, text, embedding) of the store, in order
Rows(ids, txs, embs) ==
    [i \in 1..Len(ids) |-> <<ids[i], txs[i], embs[i]>>]

RowsWithout(rows, gone) ==
    LET RECURSIVE Go(_)
        Go(r) == IF r = <<>> THEN <<>>
                 ELSE IF Head(r)[1] \in gone THEN Go(Tail(r))
                      ELSE <<Head(r)>> \o Go(Tail(r))
    IN  Go(rows)

\* C3: delete of a list of stored ids removes exactly the named records
\* and their access logs; every other record stays, with its text, its
\* embedding and its access log, in the same relative order.
C3_DeleteExact ==
    [][\A hs \in SeqsUpTo(HashIds, MaxArgs) :
          (/\ Range(hs) \subseteq Range(hash_ids)
           /\ last'.op = "delete"
           /\ \E save_ok \in BOOLEAN, ah_outcome \in AhOutcomes :
                 delete(hs, save_ok, ah_outcome))
          => /\ Rows(hash_ids', texts', embeddings')
                  = RowsWithout(Rows(hash_ids, texts, embeddings), Range(hs))
             /\ access_history'
                  = [h \in (DOMAIN access_history) \ Range(hs) |-> access_history[h]]]_vars


-----------------------------------------------------------------------------
(* Claims about get_memories_to_forget.                                    *)

\* get_memories_to_forget returned a list in the present state
Forgot == last.op = "get_memories_to_forget" /\ last.out = "list"

\* total_count: the number of scored records
TotalCount == Cardinality(Range(hash_ids))

\* ceil(total_count * retention_ratio) and its integer part
CeilRetained(num) == (TotalCount * num + RatioDen - 1) \div RatioDen
FloorRetained(num) == (TotalCount * num) \div RatioDen

\* the activation and the flag of the stored record h for the query q
ActivationOf(h, q) ==
    TotalActivation(get_access_history(h), q, get_embedding(h), now)
FlagOf(h, q) ==
    ShouldRetain(get_access_history(h), q, get_embedding(h), now)

\* the records that rank at least as high as h
AtLeastAsActive(h, q) ==
    {g \in Range(hash_ids) \ {h} : ActivationOf(g, q) >= ActivationOf(h, q)}

\* C5 as stated: at most total_count - ceil(total_count * retention_ratio)
\* identifiers are returned.
C5_AtMostCeilQuota ==
    Forgot => Len(last.to_forget) <= TotalCount - CeilRetained(last.ratio)

\* C6: no returned identifier belongs to a record whose should_retain
\* flag is true; a record with an empty access history is never returned.
C6_NeverForgetsRetained ==
    Forgot =>
        \A i \in 1..Len(last.to_forget) :
            /\ last.to_forget[i] \in Range(hash_ids)
            /\ ~FlagOf(last.to_forget[i], last.query)
            /\ get_access_history(last.to_forget[i]) # <<>>

\* a never-accessed record ranks below the retained quota, next to a
\* record that is forgotten, and is not returned
C6_Witness ==
    /\ Forgot
    /\ last.to_forget # <<>>
    /\ \E h \in Range(hash_ids) :
          /\ get_access_history(h) = <<>>
          /\ FlagOf(h, last.query)
          /\ Cardinality(AtLeastAsActive(h, last.query))
                >= Max(1, FloorRetained(last.ratio))
          /\ \A g \in Range(hash_ids) \ {h} :
                ActivationOf(g, last.query) > ActivationOf(h, last.query)
          /\ h \notin Range(last.to_forget)

-----------------------------------------------------------------------------
(* ConflictResolver: facts, normalize_fact and detect_conflicts.           *)
(* A string is the sequence of its characters; a fact is the triple        *)
(* (subject, predicate, object) of strings.                                *)

\* str.lower() on the characters the facts are written in
Lower(c) ==
    CASE c = "E" -> "e"
      [] c = "M" -> "m"
      [] c = "R" -> "r"
      [] OTHER -> c

LowerStr(s) == [i \in 1..Len(s) |-> Lower(s[i])]

\* str.strip(): leading and trailing whitespace removed
RECURSIVE LStrip(_)
LStrip(s) == IF s # <<>> /\ Head(s) = " " THEN LStrip(Tail(s)) ELSE s

RECURSIVE RStrip(_)
RStrip(s) ==
    IF s # <<>> /\ s[Len(s)] = " " THEN RStrip(SubSeq(s, 1, Len(s) - 1)) ELSE s

Strip(s) == RStrip(LStrip(s))

\* normalize_fact that lowers the case and keeps the whitespace
normalize_fact_Unstripped(fact) == [i \in 1..Len(fact) |-> LowerStr(fact[i])]

\* tuple(str(element).lower().strip() for element in fact)
normalize_fact(fact) == [i \in 1..Len(fact) |-> Strip(LowerStr(fact[i]))]

\* the facts the callers pass
FactA == << <<"e">>, <<"p">>, <<"m">> >>
FactB == << <<"E", " ">>, <<"p">>, <<"r">> >>
FactC == << <<"e">>, <<"p">>, <<" ", "M">> >>
FactD == << <<"d">>, <<"p">>, <<"r">> >>
FactE == << <<"e">>, <<"q">>, <<"R">> >>
FactPool == {FactA, FactB, FactC, FactD, FactE}

\* the condition of detect_conflicts on two normalized facts
IsConflict(exist_norm, new_norm) ==
    /\ new_norm[1] = exist_norm[1]
    /\ new_norm[2] = exist_norm[2]
    /\ new_norm[3] # exist_norm[3]

\* the pairs (exist_idx, new_idx), counted from 0, in the order of the two
\* loops: new_idx outside, exist_idx inside
LoopPairs(existing_facts, new_facts) ==
    [k \in 1..(Len(new_facts) * Len(existing_facts)) |->
        <<(k - 1) % Len(existing_facts), (k - 1) \div Len(existing_facts)>>]

\* the list detect_conflicts returns
DetectedConflicts(existing_facts, new_facts) ==
    LET Conflicting(p) ==
            IsConflict(normalize_fact(existing_facts[p[1] + 1]),
                       normalize_fact(new_facts[p[2] + 1]))
    IN  SelectSeq(LoopPairs(existing_facts, new_facts), Conflicting)

detect_conflicts ==
    /\ last' = [op |-> "detect_conflicts", out |-> "list",
                conflicts |->
                    DetectedConflicts(facts.existing, facts.new)]
    /\ UNCHANGED <<storeVars, now, resolverVars, engineVars>>

\* detect_conflicts on every pair of lists of at most MaxFacts facts
DetectInit ==
    /\ StoreEmpty
    /\ now = 0
    /\ last = [op |-> "__init__", out |-> None]
    /\ default_strategy = "keep_new"
    /\ conflict_history = <<>>
    /\ audit_file = NoFile
    /\ loaded_history = <<>>
    /\ EngineIdle
    /\ \E existing_facts \in SeqsUpTo(FactPool, MaxFacts),
          new_facts \in SeqsUpTo(FactPool, MaxFacts) :
          facts = [existing |-> existing_facts, new |-> new_facts]

DetectNext == detect_conflicts

DetectSpec == DetectInit /\ [][DetectNext]_vars

-----------------------------------------------------------------------------
(* Claims about detect_conflicts.                                          *)

\* the characters of s from its first to its last non-blank one, case folded
Folded(s) ==
    LET inked == {i \in 1..Len(s) : s[i] # " "}
        lo == CHOOSE i \in inked : \A j \in inked : i <= j
        hi == CHOOSE i \in inked : \A j \in inked : i >= j
        fold(c) == IF c = "E" THEN "e"
                   ELSE IF c = "M" THEN "m"
                   ELSE IF c = "R" THEN "r" ELSE c
    IN  IF inked = {} THEN <<>>
        ELSE [k \in 1..(hi - lo + 1) |-> fold(s[lo + k - 1])]

\* the pairs (existing index, new index) with the same subject and predicate
\* and another object, up to case and surrounding whitespace
ConflictingPairs ==
    {<<i - 1, j - 1>> : i \in 1..Len(facts.existing), j \in 1..Len(facts.new)}
    \cap
    {p \in (0..MaxFacts) \X (0..MaxFacts) :
        /\ p[1] < Len(facts.existing) /\ p[2] < Len(facts.new)
        /\ Folded(facts.existing[p[1] + 1][1]) = Folded(facts.new[p[2] + 1][1])
        /\ Folded(facts.existing[p[1] + 1][2]) = Folded(facts.new[p[2] + 1][2])
        /\ Folded(facts.existing[p[1] + 1][3]) # Folded(facts.new[p[2] + 1][3])}

Detected == last.op = "detect_conflicts"

\* C7: detect_conflicts returns exactly the pairs (existing index, new
\* index) whose facts have the same normalized subject and predicate and
\* different normalized objects, each of them once.
C7_DetectsExactlyConflicts ==
    Detected =>
        /\ Range(last.conflicts) = ConflictingPairs
        /\ Len(last.conflicts) = Cardinality(ConflictingPairs)

\* one new fact conflicts with two existing facts, and a third pairing that
\* differs only in case and whitespace is left out
C7_Witness ==
    /\ Detected
    /\ \E j \in 0..(MaxFacts - 1) :
          Cardinality({p \in Range(last.conflicts) : p[2] = j}) >= 2
    /\ \E i \in 1..Len(facts.existing), j \in 1..Len(facts.new) :
          /\ facts.existing[i] # facts.new[j]
          /\ \A k \in 1..3 :
                Folded(facts.existing[i][k]) = Folded(facts.new[j][k])
          /\ <<i - 1, j - 1>> \notin Range(last.conflicts)

-----------------------------------------------------------------------------
(* ConflictResolver.resolve_conflict and batch_resolve_conflicts.          *)

\* the strategies resolve_conflict has a branch for, and one it has none for
Strategies == {"keep_new", "keep_old", "merge", "keep_frequent"}
AllStrategies == Strategies \cup {"keep_latest"}

\* record.notes: the text of the branch taken and the counts it quotes
Notes(text, counts) == [text |-> text, counts |-> counts]

\* f"({old_fact[2]} or {new_fact[2]})"
Merged(old_fact, new_fact) ==
    <<"(">> \o old_fact[3] \o <<" ", "o", "r", " ">> \o new_fact[3] \o <<")">>

\* resolution_result where keep_frequent compares with > instead of >=
ResolutionResult_TiesToNew(strategy, old_fact, new_fact, old_access_count, new_access_count) ==
    CASE strategy = "keep_new" -> new_fact[3]
      [] strategy = "keep_old" -> old_fact[3]
      [] strategy = "merge" -> Merged(old_fact, new_fact)
      [] strategy = "keep_frequent" ->
            IF old_access_count > new_access_count
            THEN old_fact[3] ELSE new_fact[3]
      [] OTHER -> <<>>

\* record.resolution_result after the if/elif chain; "" when no branch is
\* taken
ResolutionResult(strategy, old_fact, new_fact, old_access_count, new_access_count) ==
    CASE strategy = "keep_new" -> new_fact[3]
      [] strategy = "keep_old" -> old_fact[3]
      [] strategy = "merge" -> Merged(old_fact, new_fact)
      [] strategy = "keep_frequent" ->
            IF old_access_count >= new_access_count
            THEN old_fact[3] ELSE new_fact[3]
      [] OTHER -> <<>>

\* record.notes after the if/elif chain; None when no branch is taken
ResolutionNotes(strategy, old_access_count, new_access_count) ==
    CASE strategy = "keep_new" -> Notes("New fact replaces old fact", <<>>)
      [] strategy = "keep_old" -> Notes("Old fact retained, new fact rejected", <<>>)
      [] strategy = "merge" -> Notes("Facts merged into uncertain knowledge", <<>>)
      [] strategy = "keep_frequent" ->
            IF old_access_count >= new_access_count
            THEN Notes("Old fact retained", <<old_access_count, new_access_count>>)
            ELSE Notes("New fact adopted", <<new_access_count, old_access_count>>)
      [] OTHER -> Notes(None, <<>>)

\* strategy = self.default_strategy if strategy is None
EffectiveStrategy(strategy) ==
    IF strategy = None THEN default_strategy ELSE strategy

\* a ConflictRecord that keeps the two facts in their normalized form
ConflictRecord_Normalized(old_fact, new_fact, hashes, counts, strategy, t) ==
    [timestamp |-> t,
     old_fact |-> normalize_fact(old_fact),
     new_fact |-> normalize_fact(new_fact),
     old_hash_id |-> hashes[1],
     new_hash_id |-> hashes[2],
     old_access_count |-> counts[1],
     new_access_count |-> counts[2],
     resolution_strategy |-> strategy,
     resolution_result |->
         ResolutionResult(strategy, normalize_fact(old_fact),
                          normalize_fact(new_fact), counts[1], counts[2]),
     notes |-> ResolutionNotes(strategy, counts[1], counts[2])]

\* the ConflictRecord resolve_conflict builds at time t for the strategy it
\* applies
ConflictRecord(old_fact, new_fact, hashes, counts, strategy, t) ==
    [timestamp |-> t,
     old_fact |-> old_fact,
     new_fact |-> new_fact,
     old_hash_id |-> hashes[1],
     new_hash_id |-> hashes[2],
     old_access_count |-> counts[1],
     new_access_count |-> counts[2],
     resolution_strategy |-> strategy,
     resolution_result |->
         ResolutionResult(strategy, old_fact, new_fact, counts[1], counts[2]),
     notes |-> ResolutionNotes(strategy, counts[1], counts[2])]

\* an append that replaces the history by the new record
AppendRecord_Overwrite(history, record) == <<record>>

\* self.conflict_history.append(record)
AppendRecord(history, record) == Append(history, record)

resolve_conflict(old_fact, new_fact, hashes, counts, strategy) ==
    LET record == ConflictRecord(old_fact, new_fact, hashes, counts,
                                 EffectiveStrategy(strategy), now)
    IN  /\ conflict_history' = AppendRecord(conflict_history, record)
        /\ last' = [op |-> "resolve_conflict", out |-> "ConflictRecord",
                    record |-> record, strategy |-> strategy,
                    old_fact |-> old_fact, new_fact |-> new_fact,
                    counts |-> counts]
        /\ UNCHANGED <<storeVars, now, default_strategy, facts, audit_file,
                       loaded_history, engineVars>>

\* str(fact): the repr of a tuple of three strings
Quoted(s) == <<"'">> \o s \o <<"'">>
Str(fact) ==
    <<"(">> \o Quoted(fact[1]) \o <<",", " ">> \o Quoted(fact[2])
            \o <<",", " ">> \o Quoted(fact[3]) \o <<")">>

\* how many leading pairs of conflicts index both lists: the loop raises
\* IndexError at the first pair that does not
Resolvable(conflicts, existing_facts, new_facts) ==
    LET bad == {k \in 1..Len(conflicts) :
                   \/ conflicts[k][1] >= Len(existing_facts)
                   \/ conflicts[k][2] >= Len(new_facts)}
    IN  IF bad = {} THEN Len(conflicts)
        ELSE (CHOOSE k \in bad : \A j \in bad : k <= j) - 1

\* the record of the k-th pass of the loop of batch_resolve_conflicts
BatchRecord(c, existing_facts, new_facts, fact_to_hash_id, access_counts, strategy) ==
    LET old_fact == existing_facts[c[1] + 1]
        new_fact == new_facts[c[2] + 1]
        old_hash == DictGet(fact_to_hash_id, Str(old_fact), "unknown")
        new_hash == DictGet(fact_to_hash_id, Str(new_fact), "unknown")
        old_count == DictGet(access_counts, old_hash, 0)
        new_count == DictGet(access_counts, new_hash, 0)
    IN  ConflictRecord(old_fact, new_fact, <<old_hash, new_hash>>,
                       <<old_count, new_count>>, EffectiveStrategy(strategy), now)

\* asdict(record)
to_dict(record) == [f \in DOMAIN record |-> record[f]]

\* results['facts_to_delete'] with the two branches exchanged
FactsToDelete_Swapped(strategy, records) ==
    IF strategy = "keep_new"
    THEN [k \in 1..Len(records) |-> records[k].new_hash_id]
    ELSE IF strategy = "keep_old"
    THEN [k \in 1..Len(records) |-> records[k].old_hash_id]
    ELSE <<>>

\* results['facts_to_delete'] once records are resolved with strategy
FactsToDelete(strategy, records) ==
    IF strategy = "keep_new"
    THEN [k \in 1..Len(records) |-> records[k].old_hash_id]
    ELSE IF strategy = "keep_old"
    THEN [k \in 1..Len(records) |-> records[k].new_hash_id]
    ELSE <<>>

\* results['facts_to_merge'] once records are resolved with strategy
FactsToMerge(strategy, records) ==
    IF strategy = "merge"
    THEN [k \in 1..Len(records) |->
             [old_hash |-> records[k].old_hash_id,
              new_hash |-> records[k].new_hash_id,
              merged_value |-> records[k].resolution_result]]
    ELSE <<>>

\* the history after resolve_conflict has appended each of records in turn
RECURSIVE AppendAll(_, _)
AppendAll(history, records) ==
    IF records = <<>> THEN history
    ELSE AppendAll(AppendRecord(history, Head(records)), Tail(records))

batch_resolve_conflicts(conflicts, existing_facts, new_facts, fact_to_hash_id, access_counts, strategy) ==
    LET n == Resolvable(conflicts, existing_facts, new_facts)
        records == [k \in 1..n |->
                       BatchRecord(conflicts[k], existing_facts, new_facts,
                                   fact_to_hash_id, access_counts, strategy)]
        results == [conflicts_detected |-> Len(conflicts),
                    conflict_records |-> [k \in 1..n |-> to_dict(records[k])],
                    facts_to_delete |-> FactsToDelete(strategy, records),
                    facts_to_merge |-> FactsToMerge(strategy, records)]
    IN  /\ conflict_history' = AppendAll(conflict_history, records)
        /\ last' = [op |-> "batch_resolve_conflicts",
                    out |-> IF n = Len(conflicts) THEN "results" ELSE "IndexError",
                    results |-> IF n = Len(conflicts) THEN <<results>> ELSE <<>>,
                    records |-> records,
                    conflicts |-> conflicts, strategy |-> strategy,
                    existing |-> existing_facts, new |-> new_facts]
        /\ UNCHANGED <<storeVars, now, default_strategy, facts, audit_file,
                       loaded_history, engineVars>>

-----------------------------------------------------------------------------
(* The resolver as a state machine.                                        *)

\* the caller's fact_to_hash_id: FactA and FactB are stored, the other facts
\* are not
FactToHashId == (Str(FactA) :> "fa") @@ (Str(FactB) :> "fb")

\* the facts a caller of resolve_conflict passes: the objects of two of them
\* are equal up to case and whitespace
ResolvePool == {FactA, FactB, FactC}

\* a resolver constructed with any default_strategy resolves single
\* conflicts between any two facts, with any counts and strategy
ResolveInit ==
    /\ StoreEmpty
    /\ now = 0
    /\ last = [op |-> "__init__", out |-> None]
    /\ default_strategy \in AllStrategies
    /\ conflict_history = <<>>
    /\ facts = [existing |-> <<>>, new |-> <<>>]
    /\ audit_file = NoFile
    /\ loaded_history = <<>>
    /\ EngineIdle

ResolveNext ==
    /\ Len(conflict_history) < MaxResolved
    /\ \E old_fact \in ResolvePool, new_fact \in ResolvePool,
          counts \in (0..MaxCount) \X (0..MaxCount),
          strategy \in AllStrategies \cup {None} :
          resolve_conflict(old_fact, new_fact,
              <<DictGet(FactToHashId, Str(old_fact), "unknown"),
                DictGet(FactToHashId, Str(new_fact), "unknown")>>,
              counts, strategy)

ResolveSpec == ResolveInit /\ [][ResolveNext]_vars

\* the lists of facts, of detected conflicts and of access counts that the
\* callers of AuditSpec pass
ExistingLists == {<<>>, <<FactA>>, <<FactA, FactC>>}
NewList == <<FactB>>
ConflictLists == {DetectedConflicts(e, NewList) : e \in ExistingLists}
AccessCountDicts == {EmptyDict, ("fb" :> 1)}

\* a resolver with the default strategy resolves single conflicts and
\* batches, up to MaxHistory records in all
AuditInit ==
    /\ StoreEmpty
    /\ now = 0
    /\ last = [op |-> "__init__", out |-> None]
    /\ ResolverIdle
    /\ EngineIdle

AuditNext ==
    \/ /\ Len(conflict_history) < MaxHistory
       /\ \E access_counts \in AccessCountDicts,
             strategy \in AllStrategies \cup {None} :
             resolve_conflict(FactA, FactB, <<"fa", "fb">>,
                 <<DictGet(access_counts, "fa", 0),
                   DictGet(access_counts, "fb", 0)>>, strategy)
    \/ \E conflicts \in ConflictLists, existing_facts \in ExistingLists,
          access_counts \in AccessCountDicts,
          strategy \in AllStrategies \cup {None} :
          /\ Len(conflict_history) + Len(conflicts) <= MaxHistory
          /\ batch_resolve_conflicts(conflicts, existing_facts, NewList,
                 FactToHashId, access_counts, strategy)

AuditSpec == AuditInit /\ [][AuditNext]_vars

\* a caller that keeps two lists of facts, detects their conflicts and
\* resolves them one by one or in a batch
IntakeInit ==
    /\ StoreEmpty
    /\ now = 0
    /\ last = [op |-> "__init__", out |-> None]
    /\ default_strategy = "keep_new"
    /\ conflict_history = <<>>
    /\ audit_file = NoFile
    /\ loaded_history = <<>>
    /\ EngineIdle
    /\ \E existing_facts \in SeqsUpTo(ResolvePool, MaxFacts),
          new_facts \in SeqsUpTo(ResolvePool, MaxFacts) :
          facts = [existing |-> existing_facts, new |-> new_facts]

IntakeNext ==
    \/ detect_conflicts
    \/ /\ conflict_history = <<>>
       /\ \E c \in Range(DetectedConflicts(facts.existing, facts.new)),
             access_counts \in AccessCountDicts,
             strategy \in AllStrategies \cup {None} :
             LET old_fact == facts.existing[c[1] + 1]
                 new_fact == facts.new[c[2] + 1]
                 old_hash == DictGet(FactToHashId, Str(old_fact), "unknown")
                 new_hash == DictGet(FactToHashId, Str(new_fact), "unknown")
             IN  resolve_conflict(old_fact, new_fact, <<old_hash, new_hash>>,
                     <<DictGet(access_counts, old_hash, 0),
                       DictGet(access_counts, new_hash, 0)>>, strategy)
    \/ /\ conflict_history = <<>>
       /\ \E access_counts \in AccessCountDicts,
             strategy \in AllStrategies \cup {None} :
             batch_resolve_conflicts(
                 DetectedConflicts(facts.existing, facts.new),
                 facts.existing, facts.new, FactToHashId, access_counts,
                 strategy)

IntakeSpec == IntakeInit /\ [][IntakeNext]_vars

-----------------------------------------------------------------------------
(* save_audit_log and load_audit_log: the audit history as a JSON document.*)

\* json.dump writes a tuple as an array and json.load reads an array back
\* as a list: a list is [list |-> s] here, a tuple the bare sequence s
JsonList(s) == [list |-> s]

\* tuple(l) of a list l
TupleOf(l) == l.list

\* record.to_dict() as json.dump writes it and json.load reads it back
JsonRecord(record) ==
    [to_dict(record) EXCEPT !.old_fact = JsonList(@), !.new_fact = JsonList(@)]

\* log_data of save_audit_log, as the file holds it
AuditDocument(history) ==
    [exists |-> TRUE,
     total_conflicts |-> Len(history),
     conflicts |-> [i \in 1..Len(history) |-> JsonRecord(history[i])]]

\* save_audit_log(filepath) of the first resolver
save_audit_log ==
    /\ audit_file' = AuditDocument(conflict_history)
    /\ last' = [op |-> "save_audit_log", out |-> None]
    /\ UNCHANGED <<storeVars, now, default_strategy, conflict_history, facts,
                   loaded_history, engineVars>>

\* the ConflictRecord built from one entry of log_data['conflicts'], its
\* notes left out
LoadedRecord_NoNotes(record) ==
    [timestamp |-> record.timestamp,
     old_fact |-> TupleOf(record.old_fact),
     new_fact |-> TupleOf(record.new_fact),
     old_hash_id |-> record.old_hash_id,
     new_hash_id |-> record.new_hash_id,
     old_access_count |-> record.old_access_count,
     new_access_count |-> record.new_access_count,
     resolution_strategy |-> record.resolution_strategy,
     resolution_result |-> record.resolution_result,
     notes |-> Notes(None, <<>>)]

\* the ConflictRecord built from one entry of log_data['conflicts']
LoadedRecord(record) ==
    [timestamp |-> record.timestamp,
     old_fact |-> TupleOf(record.old_fact),
     new_fact |-> TupleOf(record.new_fact),
     old_hash_id |-> record.old_hash_id,
     new_hash_id |-> record.new_hash_id,
     old_access_count |-> record.old_access_count,
     new_access_count |-> record.new_access_count,
     resolution_strategy |-> record.resolution_strategy,
     resolution_result |-> record.resolution_result,
     notes |-> DictGet(record, "notes", Notes(None, <<>>))]

\* load_audit_log(filepath) of the second resolver: open() of a path that
\* does not exist raises inside the try, the handler logs and returns
load_audit_log ==
    /\ IF audit_file.exists
       THEN loaded_history' =
                [i \in 1..Len(audit_file.conflicts) |->
                    LoadedRecord(audit_file.conflicts[i])]
       ELSE UNCHANGED loaded_history
    /\ last' = [op |-> "load_audit_log", out |-> None]
    /\ UNCHANGED <<storeVars, now, default_strategy, conflict_history, facts,
                   audit_file, engineVars>>

\* conflicts of both facts' spellings are resolved on the first resolver,
\* which saves its history; the second resolver loads the file
AuditLogNext ==
    \/ /\ Len(conflict_history) < MaxHistory
       /\ \E new_fact \in {FactB, FactC},
             strategy \in AllStrategies \cup {None} :
             resolve_conflict(FactA, new_fact, <<"fa", "fb">>, <<1, MaxCount>>,
                              strategy)
    \/ save_audit_log
    \/ load_audit_log

AuditLogSpec == AuditInit /\ [][AuditLogNext]_vars

-----------------------------------------------------------------------------
(* Claims about resolve_conflict and batch_resolve_conflicts.              *)

Resolved == last.op = "resolve_conflict"
Batched == last.op = "batch_resolve_conflicts"

\* C4: resolve_conflict with a strategy, passed or taken from
\* default_strategy, that is none of keep_new, keep_old, merge and
\* keep_frequent fails with InvalidStrategy: it returns no ConflictRecord and
\* does not extend the audit history.
C4_UnknownStrategyRejected ==
    [][(last'.op = "resolve_conflict"
           /\ EffectiveStrategy(last'.strategy) \notin Strategies)
          => /\ last'.out = "InvalidStrategy"
             /\ conflict_history' = conflict_history]_vars

\* part is a contiguous part of the string whole
Contains(whole, part) ==
    \E i \in 0..(Len(whole) - Len(part)) :
        SubSeq(whole, i + 1, i + Len(part)) = part

\* C8: resolution_result is the new object under keep_new, the old object
\* under keep_old, a disjunction containing both objects under merge, and
\* under keep_frequent the old object when old_access_count >=
\* new_access_count and the new object only when new_access_count is
\* strictly greater.
C8_ResultPerStrategy ==
    Resolved =>
        LET strategy == EffectiveStrategy(last.strategy)
            result == last.record.resolution_result
            old_object == last.old_fact[3]
            new_object == last.new_fact[3]
        IN  /\ strategy = "keep_new" => result = new_object
            /\ strategy = "keep_old" => result = old_object
            /\ strategy = "merge" =>
                  /\ Contains(result, old_object)
                  /\ Contains(result, new_object)
                  /\ Contains(result, <<" ", "o", "r", " ">>)
            /\ (strategy = "keep_frequent" /\ last.counts[1] >= last.counts[2])
                  => result = old_object
            /\ (strategy = "keep_frequent" /\ last.counts[1] < last.counts[2])
                  => result = new_object

\* keep_frequent, taken from default_strategy, has resolved a tie between two
\* different objects
C8_Witness ==
    /\ Resolved
    /\ last.strategy = None /\ default_strategy = "keep_frequent"
    /\ last.counts[1] = last.counts[2] /\ last.counts[1] > 0
    /\ last.old_fact[3] # last.new_fact[3]
    /\ last.record.resolution_result = last.old_fact[3]

\* the identifier the caller's fact_to_hash_id gives a fact
IdOf(fact) == IF fact = FactA THEN "fa" ELSE IF fact = FactB THEN "fb" ELSE "unknown"

\* C9: over a list of detected conflicts, keep_new puts the old fact's
\* identifier of each conflict in facts_to_delete, keep_old the new fact's,
\* merge puts an (old id, new id, merged value) entry in facts_to_merge and
\* nothing in facts_to_delete, keep_frequent leaves both lists empty, and the
\* one strategy is recorded on every ConflictRecord of the batch.
C9_BatchListsPerStrategy ==
    (Batched /\ last.out = "results" /\ last.strategy \in Strategies
        /\ last.conflicts = DetectedConflicts(last.existing, last.new)) =>
        LET results == last.results[1]
            n == Len(last.conflicts)
            old_id(k) == IdOf(last.existing[last.conflicts[k][1] + 1])
            new_id(k) == IdOf(last.new[last.conflicts[k][2] + 1])
            old_ids == [k \in 1..n |-> old_id(k)]
            new_ids == [k \in 1..n |-> new_id(k)]
        IN  /\ last.strategy = "keep_new" =>
                  /\ results.facts_to_delete = old_ids
                  /\ results.facts_to_merge = <<>>
            /\ last.strategy = "keep_old" =>
                  /\ results.facts_to_delete = new_ids
                  /\ results.facts_to_merge = <<>>
            /\ last.strategy = "merge" =>
                  /\ results.facts_to_delete = <<>>
                  /\ Len(results.facts_to_merge) = n
                  /\ \A k \in 1..n :
                        /\ results.facts_to_merge[k].old_hash = old_id(k)
                        /\ results.facts_to_merge[k].new_hash = new_id(k)
                        /\ results.facts_to_merge[k].merged_value
                              = results.conflict_records[k].resolution_result
                        /\ Contains(results.facts_to_merge[k].merged_value,
                               last.existing[last.conflicts[k][1] + 1][3])
                        /\ Contains(results.facts_to_merge[k].merged_value,
                               last.new[last.conflicts[k][2] + 1][3])
            /\ last.strategy = "keep_frequent" =>
                  /\ results.facts_to_delete = <<>>
                  /\ results.facts_to_merge = <<>>
            /\ Len(results.conflict_records) = n
            /\ \A k \in 1..n :
                  results.conflict_records[k].resolution_strategy = last.strategy

\* a keep_new batch over two detected conflicts, one of them with a fact the
\* caller has no identifier for, has returned the two old identifiers
C9_Witness ==
    /\ Batched /\ last.out = "results" /\ last.strategy = "keep_new"
    /\ last.conflicts = DetectedConflicts(last.existing, last.new)
    /\ Len(last.conflicts) = 2
    /\ last.results[1].facts_to_delete = <<"fa", "unknown">>

\* the records a call has handed back, or had appended when it raised
Returned(l) ==
    IF l.op = "resolve_conflict" THEN <<l.record>>
    ELSE IF l.op = "batch_resolve_conflicts" THEN l.records
    ELSE <<>>

\* C10: the audit history is append-only and ordered: every call extends it
\* by exactly one ConflictRecord per conflict it resolved, in the order of
\* resolution, and leaves the records already there as they were; a batch
\* over n conflicts returns conflicts_detected = n with n conflict_records
\* and extends the history by n.
C10_AuditAppendOnly ==
    [][/\ conflict_history' = conflict_history \o Returned(last')
       /\ (last'.op = "batch_resolve_conflicts" /\ last'.out = "results") =>
             /\ last'.results[1].conflicts_detected = Len(last'.conflicts)
             /\ Len(last'.results[1].conflict_records) = Len(last'.conflicts)
             /\ last'.results[1].conflict_records = last'.records
             /\ Len(conflict_history')
                   = Len(conflict_history) + Len(last'.conflicts)]_vars

\* a batch has returned after appending its record behind an earlier one
C10_Witness ==
    /\ Batched /\ last.out = "results"
    /\ Len(last.conflicts) >= 1
    /\ Len(conflict_history) > Len(last.conflicts)
    /\ SubSeq(conflict_history,
              Len(conflict_history) - Len(last.conflicts) + 1,
              Len(conflict_history)) = last.results[1].conflict_records

-----------------------------------------------------------------------------
(* Claims about the activation engine's window, state and retain rule.     *)

\* the engine the last call was made on
Engine(who) == IF who = "manager" THEN manager ELSE restored

\* the last n elements of s, all of s when it has fewer
LastN(s, n) == SubSeq(s, Len(s) - Min(Len(s), n) + 1, Len(s))

\* C11: after add_query_context on an engine with window size N >= 1 the
\* window holds at most N entries, and they are the most recent N of the
\* entries it held before followed by the new one, in insertion order: the
\* oldest entry is the one evicted on overflow.
C11_WindowIsFifo ==
    (last.op = "add_query_context"
        /\ Engine(last.who).context_window_size >= 1) =>
        LET self == Engine(last.who)
            added == last.before \o <<last.event>>
        IN  /\ Len(self.query_history) <= self.context_window_size
            /\ self.query_history = LastN(added, self.context_window_size)

\* a full window of two different queries took a third: the older of the two
\* is gone
C11_Witness ==
    /\ last.op = "add_query_context"
    /\ last.who = "manager"
    /\ manager.context_window_size = MaxWindow
    /\ Len(last.before) = MaxWindow
    /\ last.before[1].query # last.before[2].query
    /\ manager.query_history = Tail(last.before) \o <<last.event>>

\* the inputs both engines are scored on after a round trip
RoundTripInputs ==
    {<<hist, q, m, t>> \in
         ScoreHistories(MaxTime) \X QueryEmbeddings
             \X {Encode(x) : x \in CallTexts} \X (0..MaxTime) :
         \A i \in 1..Len(hist) : hist[i].timestamp <= t}

\* C14: load_state of the dict that export_state just returned leaves the
\* loading engine with the exporter's window size, weights, relevance
\* threshold, decay rate and window contents in order, so that both engines
\* return the same calculate_activation_score for the same inputs.
C14_RoundTripLossless ==
    [][(last.op = "export_state" /\ last'.op = "load_state") =>
          /\ restored'.context_window_size = manager'.context_window_size
          /\ restored'.recency_weight = manager'.recency_weight
          /\ restored'.frequency_weight = manager'.frequency_weight
          /\ restored'.relevance_weight = manager'.relevance_weight
          /\ restored'.relevance_threshold = manager'.relevance_threshold
          /\ restored'.decay_rate = manager'.decay_rate
          /\ restored'.query_history = manager'.query_history
          /\ \A x \in RoundTripInputs :
                activation_score(restored', "h", x[1], x[2], x[3], x[4])
                    = activation_score(manager', "h", x[1], x[2], x[3], x[4])
      ]_vars

\* an engine with weights, threshold and decay rate of its own and a window
\* of two queries was exported and loaded
C14_Witness ==
    /\ last.op = "load_state"
    /\ manager.relevance_threshold # RELEVANCE_THRESHOLD
    /\ manager.decay_rate # DECAY_RATE
    /\ manager.recency_weight # Tenths(RECENCY_WEIGHT)
    /\ Len(manager.query_history) = 2
    /\ manager.query_history[1] # manager.query_history[2]
    /\ restored.query_history = manager.query_history
    /\ restored.relevance_threshold = manager.relevance_threshold

\* C20: should_retain is true exactly when total_activation >= 0.05 or the
\* access history is empty; for an empty history recency_bonus and
\* context_frequency are 0 and should_retain is true whatever the semantic
\* relevance.
C20_RetainRule ==
    last.op = "calculate_activation_score" =>
        LET scores == last.scores
        IN  /\ scores.should_retain <=>
                   (20 * scores.total_activation >= SCALE * SCALE
                       \/ last.hist = <<>>)
            /\ last.hist = <<>> =>
                   /\ scores.recency_bonus = 0
                   /\ scores.context_frequency = 0
                   /\ scores.should_retain

\* a never-accessed memory that is orthogonal to the query scores 0 and is
\* retained
C20_Witness ==
    /\ last.op = "calculate_activation_score"
    /\ last.hist = <<>>
    /\ last.scores.semantic_relevance = 0
    /\ last.scores.total_activation = 0
    /\ last.scores.should_retain

-----------------------------------------------------------------------------
(* Claims about the access logs and the persisted files of the store.      *)

\* the projections of the log of h in the next state
AccessHistoryNext(h) ==
    IF h \in DOMAIN access_history' THEN access_history'[h] ELSE <<>>

\* C12: every record_access(id, ...) call appends exactly one event, of the
\* time of the call, at the end of id's log: the earlier events keep their
\* content and order, get_access_count grows by one, get_last_access_time
\* is the new event's timestamp, and the other logs and the stored records
\* are unchanged.
C12_AppendsOneEvent ==
    [][last'.op = "record_access" =>
          LET h == last'.hash_id
              before == get_access_history(h)
              after == AccessHistoryNext(h)
          IN  /\ Len(after) = Len(before) + 1
              /\ SubSeq(after, 1, Len(before)) = before
              /\ after[Len(after)].timestamp = now
              /\ \A k \in (DOMAIN access_history \cup DOMAIN access_history')
                          \ {h} :
                    /\ k \in DOMAIN access_history
                    /\ k \in DOMAIN access_history'
                    /\ access_history'[k] = access_history[k]
              /\ <<hash_ids, texts, embeddings>>' = <<hash_ids, texts, embeddings>>
      ]_vars

\* the access-log document doc holds the log of h as logs has it
Persisted(doc, logs, h) ==
    /\ doc.exists
    /\ doc.readable
    /\ h \in DOMAIN doc.logs
    /\ h \in DOMAIN logs
    /\ doc.logs[h] = logs[h]

\* C13: a record_access call that returns has written the log with its new
\* event to the access-log file and has left the record file as it was, so
\* a store opened on the same directory right afterwards returns the same
\* access history for that identifier.
C13_AccessLogPersisted ==
    [][/\ (last'.op = "record_access" /\ last'.out = None) =>
              /\ Persisted(ah_file', access_history', last'.hash_id)
              /\ file' = file
       /\ (last.op = "record_access" /\ last.out = None
              /\ last'.op = "__init__") =>
              AccessHistoryNext(last.hash_id)
                  = get_access_history(last.hash_id)
      ]_vars

\* the identifiers of the stored records
Stored == Range(hash_ids)

\* the vector insert_strings computed for the text behind h
InsertedFor(h) == Encode(TextOf(h))

\* C15: get_embedding(id) and get_embeddings(ids) change nothing in the
\* store; when every id asked for is the id of a stored record they return
\* the vectors inserted for these ids, in the order asked, and otherwise
\* (an id never stored, or one since deleted) they fail with a lookup error.
C15_LookupOrNotFound ==
    [][last'.op \in {"get_embedding", "get_embeddings"} =>
          LET hs == last'.hash_ids
          IN  /\ UNCHANGED storeVars
              /\ IF \A i \in 1..Len(hs) : hs[i] \in Stored
                 THEN /\ last'.out = None
                      /\ Len(last'.result) = Len(hs)
                      /\ \A i \in 1..Len(hs) :
                            last'.result[i] = InsertedFor(hs[i])
                 ELSE /\ last'.out \in {"KeyError", "IndexError"}
                      /\ last'.result = <<>>
      ]_vars

\* the identifiers of the texts ts that are not stored, each once, in the
\* order of their first occurrence in ts
NotStored(ts) ==
    LET New(i) == /\ MdHash(ts[i]) \notin Stored
                  /\ \A j \in 1..(i - 1) : ts[j] # ts[i]
        Places == {i \in 1..Len(ts) : New(i)}
        Nth(k) == CHOOSE i \in Places : Cardinality({j \in Places : j < i}) = k - 1
    IN  [k \in 1..Cardinality(Places) |-> ts[Nth(k)]]

\* C16: insert_strings never appends or persists a part of its batch: when
\* encoding fails, the three lists, the mapping and the record file are
\* unchanged; otherwise every text of the call that is not stored is
\* appended with its identifier and embedding, and the record file holds
\* the lists with the whole batch.
C16_NoPartialBatch ==
    [][last'.op = "insert_strings" =>
          LET batch == NotStored(last'.texts)
          IN  IF last'.out = "EncodeError"
              THEN UNCHANGED <<hash_ids, texts, embeddings, hash_id_to_idx,
                               hash_id_to_row, file>>
              ELSE /\ texts' = texts \o batch
                   /\ hash_ids' =
                          hash_ids \o [k \in 1..Len(batch) |-> MdHash(batch[k])]
                   /\ embeddings' =
                          embeddings \o [k \in 1..Len(batch) |-> Encode(batch[k])]
                   /\ batch # <<>> =>
                          file' = Frame(hash_ids', texts', embeddings')
      ]_vars

\* the access-log file can be read back
AhLoadable == ah_file.exists /\ ah_file.readable

\* C17: opening a store succeeds whatever part of the directory is missing
\* or unreadable: without a record file the store has no records, without
\* an access-log file or with one that fails to parse it has an empty access
\* history, and each part that is there is loaded from its own file whatever
\* happened to the other.
C17_OpenTolerates ==
    [][last'.op = "__init__" =>
          /\ last'.out = None
          /\ ~file.exists =>
                 /\ hash_ids' = <<>> /\ texts' = <<>> /\ embeddings' = <<>>
                 /\ DOMAIN hash_id_to_idx' = {}
          /\ file.exists =>
                 /\ hash_ids' = file.hash_id
                 /\ texts' = file.content
                 /\ embeddings' = file.embedding
                 /\ DOMAIN hash_id_to_idx' = Range(file.hash_id)
          /\ ~AhLoadable => DOMAIN access_history' = {}
          /\ AhLoadable => access_history' = ah_file.logs
      ]_vars

\* records were loaded although the access-log file failed to parse
C17_Witness ==
    /\ last.op = "__init__"
    /\ ah_file = Corrupt
    /\ file.exists
    /\ hash_ids = file.hash_id
    /\ Len(hash_ids) = 2
    /\ DOMAIN access_history = {}

\* C18: upserting a text that differs from every stored text appends a
\* record with that text under its own identifier, different from every
\* identifier stored before, and every record stored before keeps its
\* identifier, text, embedding, position and access log.
C18_EditAppendsNewRecord ==
    [][last'.op = "insert_strings" =>
          /\ \A i \in 1..Len(last'.texts) :
                last'.texts[i] \notin Range(texts) =>
                    /\ MdHash(last'.texts[i]) \notin Range(hash_ids)
                    /\ \E p \in (Len(hash_ids) + 1)..Len(hash_ids') :
                          /\ hash_ids'[p] = MdHash(last'.texts[i])
                          /\ texts'[p] = last'.texts[i]
          /\ SubSeq(hash_ids', 1, Len(hash_ids)) = hash_ids
          /\ SubSeq(texts', 1, Len(texts)) = texts
          /\ SubSeq(embeddings', 1, Len(embeddings)) = embeddings
          /\ access_history' = access_history
      ]_vars

-----------------------------------------------------------------------------
(* Claims about the persisted audit log.                                   *)

\* C19: load_audit_log right after save_audit_log gives the loading
\* resolver the saving resolver's history: as many ConflictRecords, in the
\* same order, with equal fields, the facts being triples again; loading
\* from a path that does not exist raises nothing and leaves the loading
\* resolver's history as it was.
C19_AuditRoundTrip ==
    [][last'.op = "load_audit_log" =>
          /\ last'.out = None
          /\ last.op = "save_audit_log" =>
                 /\ Len(loaded_history') = Len(conflict_history)
                 /\ \A i \in 1..Len(conflict_history) :
                       /\ loaded_history'[i] = conflict_history[i]
                       /\ Len(loaded_history'[i].old_fact) = 3
                       /\ Len(loaded_history'[i].new_fact) = 3
          /\ ~audit_file.exists => loaded_history' = loaded_history
      ]_vars

\* a history of two records, one of them with notes, was saved and loaded
C19_Witness ==
    /\ last.op = "load_audit_log"
    /\ audit_file.exists
    /\ Len(conflict_history) = 2
    /\ conflict_history[1] # conflict_history[2]
    /\ \E i \in 1..2 : conflict_history[i].notes # Notes(None, <<>>)
    /\ loaded_history = conflict_history

-----------------------------------------------------------------------------
(* Claims about the components of the activation score.                    *)

\* how many events of hist hold a similarity of at least threshold
RelevantTouches(hist, threshold) ==
    Cardinality({i \in 1..Len(hist) :
                    /\ hist[i].computed_similarity # <<>>
                    /\ hist[i].computed_similarity[1] >= threshold})

\* C21: context_frequency is min(1, k/5) for the number k of events of the
\* access history whose stored similarity is at least the engine's relevance
\* threshold, events without a stored similarity not being counted: 0 for
\* k = 0 and 1 for every k >= 5.
C21_FrequencyIsCappedFifth ==
    last.op = "calculate_activation_score" =>
        LET k == RelevantTouches(last.hist,
                                 Engine(last.who).relevance_threshold)
            context_frequency == last.scores.context_frequency
        IN  /\ k < 5 => 5 * context_frequency = k * SCALE
            /\ k >= 5 => context_frequency = SCALE
            /\ k = 0 => context_frequency = 0

\* the cap: six relevant events give 1, not 6/5
C21_Witness ==
    /\ last.op = "calculate_activation_score"
    /\ Len(last.hist) = 6
    /\ RelevantTouches(last.hist, Engine(last.who).relevance_threshold) = 6
    /\ last.scores.context_frequency = SCALE

\* ---------------------------------------------------------------------------
\* C22: for every engine, record embedding, query embedding, access history
\* and scoring time, calculate_activation_score returns semantic_relevance,
\* recency_bonus and context_frequency within [0,1], and total_activation is
\* their combination with three weights that sum to 1, so that it lies
\* within [0,1] too.
Unit == 0..SCALE

C22_ScoresWithinUnit ==
    last.op = "calculate_activation_score" =>
        LET self == Engine(last.who)
            scores == last.scores
        IN  /\ scores.semantic_relevance \in Unit
            /\ scores.recency_bonus \in Unit
            /\ scores.context_frequency \in Unit
            /\ self.relevance_weight \in Unit
            /\ self.recency_weight \in Unit
            /\ self.frequency_weight \in Unit
            /\ self.relevance_weight + self.recency_weight
                   + self.frequency_weight = SCALE
            /\ scores.total_activation
                   = self.relevance_weight * scores.semantic_relevance
                     + self.recency_weight * scores.recency_bonus
                     + self.frequency_weight * scores.context_frequency
            /\ scores.total_activation \in 0..(SCALE * SCALE)

RawResults(old_fact, new_fact) ==
    {old_fact[3], new_fact[3],
     <<"(">> \o old_fact[3] \o <<" ", "o", "r", " ">> \o new_fact[3] \o <<")">>}

CarriesAsSupplied(record, old_fact, new_fact) ==
    /\ record.old_fact = old_fact
    /\ record.new_fact = new_fact
    /\ record.resolution_strategy \in Strategies =>
          record.resolution_result \in RawResults(old_fact, new_fact)

C24_NormalizationOnlyCompares ==
    [][/\ last'.op = "detect_conflicts" => facts' = facts
       /\ last'.op = "resolve_conflict" =>
             CarriesAsSupplied(last'.record, last'.old_fact, last'.new_fact)
       /\ (last'.op = "batch_resolve_conflicts" /\ last'.out = "results") =>
             /\ facts' = facts
             /\ Len(last'.results[1].conflict_records) = Len(last'.conflicts)
             /\ \A k \in 1..Len(last'.conflicts) :
                   CarriesAsSupplied(last'.results[1].conflict_records[k],
                       last'.existing[last'.conflicts[k][1] + 1],
                       last'.new[last'.conflicts[k][2] + 1])]_vars

\* a batch has returned a record whose two facts differ from their
\* normalized forms and whose result is the old object with its blank and
\* its capital
C24_Witness ==
    /\ last.op = "batch_resolve_conflicts" /\ last.out = "results"
    /\ \E k \in 1..Len(last.results[1].conflict_records) :
          LET record == last.results[1].conflict_records[k]
          IN  /\ record.old_fact = FactC
              /\ record.new_fact = FactB
              /\ record.old_fact # normalize_fact(record.old_fact)
              /\ record.new_fact # normalize_fact(record.new_fact)
              /\ record.resolution_result = <<" ", "M">>

\* ---------------------------------------------------------------------------
\* C25: after any sequence of insert_strings, record_access and delete every
\* identifier that has an access log is the identifier of a stored record:
\* there is no log for an identifier that was never inserted or that has
\* been deleted, so that a text inserted again starts with an empty history.
C25_LogsOnlyForStored == DOMAIN access_history \subseteq Range(hash_ids)

\* ---------------------------------------------------------------------------
\* C26: delete is exact when an identifier occurs more than once in its
\* argument: a list that names a stored identifier twice removes that one
\* record once and removes no record that the list does not name.
NamesTwice(hs) == \E i, j \in 1..Len(hs) : i # j /\ hs[i] = hs[j]

C26_DeleteExactWithDuplicates ==
    [][\A hs \in SeqsUpTo(HashIds, MaxArgs) :
          (/\ NamesTwice(hs)
           /\ Range(hs) \subseteq Range(hash_ids)
           /\ last'.op = "delete"
           /\ delete(hs, TRUE, "ok"))
          => /\ last'.out = None
             /\ Range(hash_ids') = Range(hash_ids) \ Range(hs)
             /\ Rows(hash_ids', texts', embeddings')
                  = RowsWithout(Rows(hash_ids, texts, embeddings), Range(hs))]_vars

\* ---------------------------------------------------------------------------
\* C27: batch_resolve_conflicts lists each deletion candidate at most once:
\* when one existing fact conflicts with several new facts under keep_new,
\* or one new fact with several existing facts under keep_old,
\* facts_to_delete holds that fact's identifier a single time.
NoRepeat(s) == \A i, j \in 1..Len(s) : s[i] = s[j] => i = j

C27_DeletionCandidatesOnce ==
    (/\ last.op = "batch_resolve_conflicts" /\ last.out = "results"
     /\ last.strategy \in {"keep_new", "keep_old"}
     /\ NoRepeat(last.existing) /\ NoRepeat(last.new)) =>
        \A id \in Range(last.results[1].facts_to_delete) \ {"unknown"} :
            Occurrences(last.results[1].facts_to_delete, id) = 1

\* ---------------------------------------------------------------------------
\* C28: delete is all-or-nothing on an unknown identifier: if any identifier
\* of the argument is not stored, delete fails and removes no record and no
\* access log; the sequences, the mapping and the persisted files stay as
\* they were, even when other identifiers of the same list are stored.
NamesUnstored(hs) == \E i \in 1..Len(hs) : hs[i] \notin Range(hash_ids)

WriteFailed ==
    /\ last.op \in {"insert_strings", "delete"}
    /\ last.out = "IOError"

C29_ConsistentAfterFailedWrite ==
    WriteFailed =>
        /\ Consistent
        /\ DOMAIN hash_id_to_row = Range(hash_ids)

\* ---------------------------------------------------------------------------
\* C30: engines restored from an exported state are isolated from it and
\* from each other: after load_state(state), add_query_context on the
\* loading engine changes neither the contents of the state object nor the
\* context window of the exporting engine or of another engine that loaded
\* the same state object (such an engine reads its window from the list the
\* state object holds).
C30_RestoredEngineIsolated ==
    [][(last'.op = "add_query_context" /\ last'.who = "restored") =>
          /\ state' = state
          /\ manager' = manager]_vars

=========================================================================
